---- MODULE Spec2Model ----
(***************************************************************************)
(* Model of tools/keepalived/lib/align.h: the pointer cast macros          *)
(* PTR_CAST, PTR_CAST_CONST, PTR_CAST2 and PTR_CAST2_CONST in the four     *)
(* builds {CAST_VIA_VOID defined or not} x {CHECK_CAST_ALIGN defined or    *)
(* not}.  A pointer is a record of its address, its pointed-to type and    *)
(* its const qualifier; a cast changes the type and keeps the address.     *)
(* The two places a diagnostic can be written to (log_message and the      *)
(* standard output written by printf) are modelled by the number of lines  *)
(* each has received, and by the lines the last call wrote, in order.      *)
(***************************************************************************)
EXTENDS Integers, Sequences, FiniteSets, TLC

VARIABLES viaVoid,      \* CAST_VIA_VOID is defined in this build
          checkAlign,   \* CHECK_CAST_ALIGN is defined in this build
          call,         \* the last macro evaluated and its arguments
          ret,          \* the value of that statement expression
          sav_ptr,      \* the storage of the automatic sav_ptr
          sav_ptr1,     \* the storage of the automatic sav_ptr1
          emitted,      \* the lines the last evaluation wrote, in order
          nLogMessage,  \* lines handed to log_message so far
          nPrintf,      \* lines handed to printf so far
          nCalls        \* macro evaluations so far

vars == <<viaVoid, checkAlign, call, ret, sav_ptr, sav_ptr1, emitted,
          nLogMessage, nPrintf, nCalls>>

----------------------------------------------------------------------------
(* Bounds of the model *)

WordBits == 16
AddrSpan == 1
MaxCalls == 2

(* 2^n *)
RECURSIVE Pow2(_)
Pow2(n) == IF n = 0 THEN 1 ELSE 2 * Pow2(n - 1)

Word == Pow2(WordBits)
SignBit == Pow2(WordBits - 1)

(* The address of the spec's two-stage example, 0x1001 *)
ExampleAddr == 4096 + 1

(* The addresses the callers pass: the lowest ones (null included), the    *)
(* example address, the first ones with the top bit set and the highest.   *)
Addrs == (0 .. AddrSpan) \cup {4, ExampleAddr}
         \cup {SignBit + k : k \in 0 .. AddrSpan}
         \cup {Word - 1 - k : k \in 0 .. AddrSpan} \cup {Word - 8}

----------------------------------------------------------------------------
(* The callers' types: what __alignof__ and the field access see *)

ScalarTypes == {"uint8", "uint16", "uint32", "uint64"}
StructTypes == {"I", "Hdr", "Pk"}

(* I   = { pad: byte[1], x: uint32 }                  natural alignment    *)
(* Hdr = { len: uint16, tag: byte, data: byte[5] }    natural alignment    *)
(* Pk  = { tag: byte, x: uint32 }                     packed               *)
AlignOf(type) ==
    CASE type = "uint8" -> 1
      [] type = "uint16" -> 2
      [] type = "uint32" -> 4
      [] type = "uint64" -> 8
      [] type = "I" -> 4
      [] type = "Hdr" -> 2
      [] type = "Pk" -> 1

OffsetOf(type1, field) ==
    CASE type1 = "I" /\ field = "pad" -> 0
      [] type1 = "I" /\ field = "x" -> 4
      [] type1 = "Hdr" /\ field = "len" -> 0
      [] type1 = "Hdr" /\ field = "data" -> 3
      [] type1 = "Pk" /\ field = "x" -> 1

FieldType(type1, field) ==
    CASE type1 = "I" /\ field = "pad" -> "uint8"
      [] type1 = "I" /\ field = "x" -> "uint32"
      [] type1 = "Hdr" /\ field = "len" -> "uint16"
      [] type1 = "Hdr" /\ field = "data" -> "uint8"
      [] type1 = "Pk" /\ field = "x" -> "uint32"

(* The field casts the callers write: <<__type, __type1, __field>>.  The   *)
(* byte array Hdr.data is read as a uint32, as the callers of PTR_CAST2 do *)
(* with packet buffers.                                                    *)
FieldCasts == { <<"uint8", "I", "pad">>, <<"uint32", "I", "x">>,
                <<"uint16", "Hdr", "len">>, <<"uint32", "Hdr", "data">>,
                <<"uint32", "Pk", "x">> }

----------------------------------------------------------------------------
(* Pointers and conversions *)

Unset == [addr |-> -1, ty |-> "unset", cnst |-> FALSE]

(* The caller's pointer: a char * holding address a *)
CharPtr(a) == [addr |-> a, ty |-> "char", cnst |-> FALSE]

(* A cast that rounds the address down to the alignment of the target *)
CastToAligned(type, cnst, p) ==
    LET al == IF type \in {"void", "char"} THEN 1 ELSE AlignOf(type)
    IN  [addr |-> p.addr - (p.addr % al), ty |-> type, cnst |-> cnst]

(* The cast to pointer-to-__type, with __const.  The compilers that accept *)
(* the statement expressions of this header (gcc, clang) convert between   *)
(* object pointer types without changing the address, also when the        *)
(* address is misaligned for the new type.                                 *)
CastTo(type, cnst, p) == [addr |-> p.addr, ty |-> type, cnst |-> cnst]

(* A void stage that goes through a signed integer one bit narrower *)
CAST_PTR_Narrow(via, cnst, p) ==
    IF via THEN [addr |-> p.addr % SignBit, ty |-> "void", cnst |-> cnst]
    ELSE p

(* __CAST_PTR(__const) p : p cast to __const void pointer with             *)
(* CAST_VIA_VOID, p itself without                                        *)
CAST_PTR(via, cnst, p) == IF via THEN CastTo("void", cnst, p) ELSE p

(* An automatic with static storage: initialised by the first evaluation  *)
(* only                                                                    *)
SavPtrStale(old, cnst, p) ==
    IF old.ty = "unset" THEN [addr |-> p.addr, ty |-> "void", cnst |-> cnst]
    ELSE old

(* __const void *sav_ptr = __ptr : the automatic is initialised from the   *)
(* argument on every evaluation; old is what its storage held before.      *)
SavPtr(old, cnst, p) == CastTo("void", cnst, p)

(* (long)sav_ptr : the word reinterpreted as a signed long *)
ToLong(a) == IF a >= SignBit THEN a - Word ELSE a

(* the usual arithmetic conversions: long % size_t converts the long to    *)
(* unsigned long                                                           *)
ToULong(x) == x % Word

(* The remainder of C's signed division, which truncates towards zero *)
SignedRem(x, al) == IF x >= 0 THEN x % al ELSE 0 - ((0 - x) % al)

(* The test written as (long)sav_ptr % (long)__alignof__(__type) > 0 *)
AlignRemSignedPositive(a, al) ==
    IF SignedRem(ToLong(a), al) > 0 THEN SignedRem(ToLong(a), al) ELSE 0

(* The test written as (long)sav_ptr & __alignof__(__type) *)
AlignRemAndMask(a, al) == IF (a \div al) % 2 = 1 THEN al ELSE 0

(* (long)sav_ptr % __alignof__(__type) *)
AlignRem(a, al) == ToULong(ToLong(a)) % al

(* A field access that drops the offset *)
FieldAddrBase(p, type1, field) ==
    [addr |-> p.addr, ty |-> FieldType(type1, field), cnst |-> p.cnst]

(* The address of p->__field, p a pointer to __type1 *)
FieldAddr(p, type1, field) ==
    [addr |-> (p.addr + OffsetOf(type1, field)) % Word,
     ty |-> FieldType(type1, field), cnst |-> p.cnst]

----------------------------------------------------------------------------
(* Diagnostics *)

(* A line that reports the alignment of the pointer, not of the type *)
AlignmentErrorPtrAlign(sink, severity, type, expr, p) ==
    [sink |-> sink, severity |-> severity, type |-> type, expr |-> expr,
     align |-> 8, addr |-> p.addr]

(* The line "Alignment error - (#__type)(#__ptr) - alignment %zu, address  *)
(* %p" with its two values, and where it is written to                    *)
AlignmentError(sink, severity, type, expr, p) ==
    [sink |-> sink, severity |-> severity, type |-> type, expr |-> expr,
     align |-> AlignOf(type), addr |-> p.addr]

(* The text of the second argument PTR_CAST2_ALL hands to PTR_CAST_ALL *)
FieldExpr(type1, field) == <<"&", type1, "__CAST_PTR", "sav_ptr1", field>>

(* The text of the caller's pointer argument *)
PtrExpr == <<"ptr">>

----------------------------------------------------------------------------
(* The macros.  Each yields the value of the statement expression (ret),   *)
(* the lines it wrote (out) and the automatics it left behind.             *)

PTR_CAST_ALL(via, chk, oldSav, type, expr, ptr, cnst) ==
    IF chk
    THEN LET sav == SavPtr(oldSav, cnst, ptr)
         IN  [ret |-> CastTo(type, cnst, CAST_PTR(via, cnst, sav)),
              out |-> IF AlignRem(sav.addr, AlignOf(type)) # 0
                      THEN << AlignmentError("log_message", "LOG_INFO",
                                             type, expr, sav) >>
                      ELSE << >>,
              sav |-> sav]
    ELSE [ret |-> CastTo(type, cnst, CAST_PTR(via, cnst, ptr)),
          out |-> << >>,
          sav |-> oldSav]

(* A first check that was left out *)
Stage1Silent(type1, expr, sav1) == << >>

(* The first check of PTR_CAST2_ALL: sav_ptr1 against __type1, through     *)
(* printf                                                                  *)
Stage1(type1, expr, sav1) ==
    IF AlignRem(sav1.addr, AlignOf(type1)) # 0
    THEN << AlignmentError("printf", "none", type1, expr, sav1) >>
    ELSE << >>

(* A field cast that checks the field before the structure *)
PTR_CAST2_ALL_FieldFirst(via, chk, oldSav, oldSav1, type, type1, expr, ptr, field, cnst) ==
    LET sav1 == [addr |-> ptr.addr, ty |-> "void", cnst |-> cnst]
        fp == [addr |-> (ptr.addr + OffsetOf(type1, field)) % Word,
               ty |-> "void", cnst |-> cnst]
        d1 == IF (ptr.addr % AlignOf(type1)) # 0
              THEN << [sink |-> "printf", severity |-> "none",
                       type |-> type1, expr |-> expr,
                       align |-> AlignOf(type1), addr |-> ptr.addr] >>
              ELSE << >>
        d2 == IF (fp.addr % AlignOf(type)) # 0
              THEN << [sink |-> "log_message", severity |-> "LOG_INFO",
                       type |-> type, expr |-> FieldExpr(type1, field),
                       align |-> AlignOf(type), addr |-> fp.addr] >>
              ELSE << >>
    IN  [ret |-> [addr |-> fp.addr, ty |-> type, cnst |-> cnst],
         out |-> IF chk THEN d2 \o d1 ELSE << >>,
         sav |-> IF chk THEN fp ELSE oldSav,
         sav1 |-> IF chk THEN sav1 ELSE oldSav1]

PTR_CAST2_ALL(via, chk, oldSav, oldSav1, type, type1, expr, ptr, field, cnst) ==
    IF chk
    THEN LET sav1 == SavPtr(oldSav1, cnst, ptr)
             first == Stage1(type1, expr, sav1)
             inner == PTR_CAST_ALL(via, chk, oldSav, type,
                          FieldExpr(type1, field),
                          FieldAddr(CastTo(type1, cnst,
                                           CAST_PTR(via, cnst, sav1)),
                                    type1, field),
                          cnst)
         IN  [ret |-> inner.ret,
              out |-> first \o inner.out,
              sav |-> inner.sav,
              sav1 |-> sav1]
    ELSE [ret |-> CastTo(type, cnst,
                     CAST_PTR(via, cnst,
                         FieldAddr(CastTo(type1, cnst,
                                          CAST_PTR(via, cnst, ptr)),
                                   type1, field))),
          out |-> << >>,
          sav |-> oldSav,
          sav1 |-> oldSav1]

----------------------------------------------------------------------------
(* The state machine: a build, then any sequence of casts *)

WholeTypes == ScalarTypes \cup StructTypes

NoCall == [op |-> "none", type |-> "-", type1 |-> "-", field |-> "-",
           ptr |-> -1]

IsConst(op) == op \in {"PTR_CAST_CONST", "PTR_CAST2_CONST"}
IsField(op) == op \in {"PTR_CAST2", "PTR_CAST2_CONST"}

(* The lines of a sequence written through one sink *)
RECURSIVE CountSink(_, _)
CountSink(out, sink) ==
    IF out = << >> THEN 0
    ELSE (IF Head(out).sink = sink THEN 1 ELSE 0) + CountSink(Tail(out), sink)

Init ==
    /\ viaVoid \in BOOLEAN
    /\ checkAlign \in BOOLEAN
    /\ call = NoCall
    /\ ret = Unset
    /\ sav_ptr = Unset
    /\ sav_ptr1 = Unset
    /\ emitted = << >>
    /\ nLogMessage = 0
    /\ nPrintf = 0
    /\ nCalls = 0

(* What the caller and the two sinks see of one evaluation *)
Evaluated(c, r, sav1) ==
    /\ nCalls < MaxCalls
    /\ call' = c
    /\ ret' = r.ret
    /\ sav_ptr' = r.sav
    /\ sav_ptr1' = sav1
    /\ emitted' = r.out
    /\ nLogMessage' = nLogMessage + CountSink(r.out, "log_message")
    /\ nPrintf' = nPrintf + CountSink(r.out, "printf")
    /\ nCalls' = nCalls + 1
    /\ UNCHANGED <<viaVoid, checkAlign>>

WholeCast(op) ==
    \E type \in WholeTypes, a \in Addrs :
        LET r == PTR_CAST_ALL(viaVoid, checkAlign, sav_ptr, type, PtrExpr,
                              CharPtr(a), IsConst(op))
        IN  Evaluated([op |-> op, type |-> type, type1 |-> "-",
                       field |-> "-", ptr |-> a], r, sav_ptr1)

(* The callers pass the address of storage that holds the structure up to  *)
(* the field, so the field's address is a word.                            *)
FieldCast(op) ==
    \E fc \in FieldCasts, a \in Addrs :
        /\ a + OffsetOf(fc[2], fc[3]) < Word
        /\ LET r == PTR_CAST2_ALL(viaVoid, checkAlign, sav_ptr, sav_ptr1,
                                  fc[1], fc[2], PtrExpr, CharPtr(a), fc[3],
                                  IsConst(op))
           IN  Evaluated([op |-> op, type |-> fc[1], type1 |-> fc[2],
                          field |-> fc[3], ptr |-> a], r, r.sav1)

PTR_CAST == WholeCast("PTR_CAST")
PTR_CAST_CONST == WholeCast("PTR_CAST_CONST")
PTR_CAST2 == FieldCast("PTR_CAST2")
PTR_CAST2_CONST == FieldCast("PTR_CAST2_CONST")

Next == PTR_CAST \/ PTR_CAST_CONST \/ PTR_CAST2 \/ PTR_CAST2_CONST

Spec == Init /\ [][Next]_vars

TypeOK ==
    /\ viaVoid \in BOOLEAN /\ checkAlign \in BOOLEAN
    /\ nCalls \in 0 .. MaxCalls
    /\ nLogMessage \in 0 .. 2 * MaxCalls
    /\ nPrintf \in 0 .. MaxCalls
    /\ Len(emitted) <= 2

----------------------------------------------------------------------------
(* Properties *)

LastWhole == call.op \in {"PTR_CAST", "PTR_CAST_CONST"}
LastField == IsField(call.op)

(* The address of the field the last field cast names *)
LastFieldAddr == call.ptr + OffsetOf(call.type1, call.field)

(* The lines of the last evaluation that name the expression e *)
LinesOf(e) == { i \in 1 .. Len(emitted) : emitted[i].expr = e }

(* What the macro c.op yields on c's arguments in the build <<via, chk>>   *)
(* when nothing was evaluated before                                       *)
FirstEvaluation(via, chk, c) ==
    IF IsField(c.op)
    THEN PTR_CAST2_ALL(via, chk, Unset, Unset, c.type, c.type1, PtrExpr,
                       CharPtr(c.ptr), c.field, IsConst(c.op))
    ELSE PTR_CAST_ALL(via, chk, Unset, c.type, PtrExpr, CharPtr(c.ptr),
                      IsConst(c.op))

(* C1: in each of the four builds, PTR_CAST and PTR_CAST_CONST return a    *)
(* pointer to the target type whose address is the address passed, null    *)
(* included, whether or not a line was written.                            *)
C1_Identity ==
    LastWhole => /\ ret.addr = call.ptr
                 /\ ret.ty = call.type

C1_Witness ==
    /\ LastWhole /\ viaVoid /\ checkAlign
    /\ emitted # << >>
    /\ ret.addr = call.ptr

(* C2: in each of the four builds, PTR_CAST2 and PTR_CAST2_CONST return a  *)
(* pointer whose address is the address passed plus the offset of the      *)
(* field in the intermediate type, whether or not either check wrote a     *)
(* line.                                                                   *)
C2_Offset ==
    LastField => /\ ret.addr = call.ptr + OffsetOf(call.type1, call.field)
                 /\ ret.ty = call.type

C2_Witness ==
    /\ LastField /\ checkAlign
    /\ OffsetOf(call.type1, call.field) > 0
    /\ Len(emitted) = 2
    /\ ret.addr = call.ptr + OffsetOf(call.type1, call.field)

(* C3: with CHECK_CAST_ALIGN, a whole-object cast of an address that is    *)
(* not a multiple of the alignment of the target type writes exactly one   *)
(* line, the line carries that alignment and that address, and the cast    *)
(* still returns the address.                                              *)
C3_DiagnosticOnMisaligned ==
    (checkAlign /\ LastWhole /\ call.ptr % AlignOf(call.type) # 0)
        => /\ Len(emitted) = 1
           /\ emitted[1].align = AlignOf(call.type)
           /\ emitted[1].addr = call.ptr
           /\ emitted[1].type = call.type
           /\ ret.addr = call.ptr

C3_Witness ==
    /\ checkAlign /\ LastWhole
    /\ call.ptr % AlignOf(call.type) # 0
    /\ AlignOf(call.type) = 4
    /\ Len(emitted) = 1
    /\ ret.addr = call.ptr

(* C4: a whole-object cast writes a line only if CHECK_CAST_ALIGN is       *)
(* defined and the address is not a multiple of the alignment of the       *)
(* target type; without CHECK_CAST_ALIGN no sequence of casts of any of    *)
(* the four kinds writes anything to either sink.                          *)
C4_NoSpuriousDiagnostic ==
    /\ (LastWhole /\ emitted # << >>)
         => (checkAlign /\ call.ptr % AlignOf(call.type) # 0)
    /\ ~checkAlign => (emitted = << >> /\ nLogMessage = 0 /\ nPrintf = 0)

C4_Witness ==
    /\ checkAlign /\ LastWhole
    /\ call.ptr > 0
    /\ AlignOf(call.type) > 1
    /\ call.ptr % AlignOf(call.type) = 0
    /\ emitted = << >>

(* C5: every line any of the four macros writes is handed to log_message,  *)
(* the first check of a field cast included; nothing is written anywhere   *)
(* else.                                                                   *)
C5_AllThroughLogMessage ==
    /\ \A i \in 1 .. Len(emitted) : emitted[i].sink = "log_message"
    /\ nPrintf = 0

(* C6: with CHECK_CAST_ALIGN a field cast checks the address passed        *)
(* against the intermediate type first and the field address against the   *)
(* target type second; each check writes no line or one line, carrying     *)
(* the alignment and the address it checked.  The cast of 0x1001 through   *)
(* I.x writes a line with alignment 4 and address 0x1005 and returns       *)
(* 0x1005.                                                                 *)
C6_TwoStage ==
    (checkAlign /\ LastField) =>
        LET d1 == call.ptr % AlignOf(call.type1) # 0
            d2 == LastFieldAddr % AlignOf(call.type) # 0
            n == Len(emitted)
        IN  /\ n = (IF d1 THEN 1 ELSE 0) + (IF d2 THEN 1 ELSE 0)
            /\ d1 => /\ emitted[1].type = call.type1
                     /\ emitted[1].expr = PtrExpr
                     /\ emitted[1].align = AlignOf(call.type1)
                     /\ emitted[1].addr = call.ptr
            /\ d2 => /\ emitted[n].type = call.type
                     /\ emitted[n].expr = FieldExpr(call.type1, call.field)
                     /\ emitted[n].align = AlignOf(call.type)
                     /\ emitted[n].addr = LastFieldAddr
            /\ (call.type1 = "I" /\ call.field = "x"
                  /\ call.ptr = ExampleAddr)
                 => /\ \E i \in 1 .. n : /\ emitted[i].align = 4
                                         /\ emitted[i].addr = 4101
                    /\ ret.addr = 4101

C6_Witness ==
    /\ checkAlign /\ LastField
    /\ call.type1 = "I" /\ call.field = "x" /\ call.ptr = ExampleAddr
    /\ Len(emitted) = 2
    /\ emitted[1].addr = ExampleAddr
    /\ emitted[2].addr = 4101 /\ emitted[2].align = 4
    /\ ret.addr = 4101

(* C7: for the same macro, arguments and setting of CHECK_CAST_ALIGN, the  *)
(* build with CAST_VIA_VOID and the build without return the same pointer  *)
(* and write the same lines, in the same order, to the same sinks.         *)
C7_ConfigurationIndependence ==
    call.op # "none" =>
        LET other == FirstEvaluation(~viaVoid, checkAlign, call)
        IN  /\ ret = other.ret
            /\ emitted = other.out

C7_Witness ==
    /\ viaVoid /\ checkAlign /\ LastField
    /\ call.ptr >= SignBit
    /\ emitted # << >>

(* C8: after any sequence of earlier casts, a cast returns the pointer and *)
(* writes the lines that the same cast returns and writes when it is the   *)
(* first one evaluated: nothing an earlier cast left behind is read.       *)
C8_Stateless ==
    call.op # "none" =>
        LET alone == FirstEvaluation(viaVoid, checkAlign, call)
        IN  /\ ret = alone.ret
            /\ emitted = alone.out

C8_Witness ==
    /\ nCalls >= 2 /\ checkAlign
    /\ emitted # << >>
    /\ nLogMessage + nPrintf > Len(emitted)
    /\ sav_ptr1.ty # "unset" /\ sav_ptr1.addr # call.ptr

(* C9: with CHECK_CAST_ALIGN the second check of a field cast writes a     *)
(* line exactly when the field address is misaligned for the target type,  *)
(* whatever the first check did; and among the field casts the callers     *)
(* make, each of the four combinations of outcomes of the two checks       *)
(* occurs.                                                                 *)
C9_IndependentStages ==
    /\ (checkAlign /\ LastField) =>
          ((LinesOf(FieldExpr(call.type1, call.field)) # {})
              <=> (LastFieldAddr % AlignOf(call.type) # 0))
    /\ \A s1, s2 \in BOOLEAN :
          \E fc \in FieldCasts, a \in Addrs :
              /\ a + OffsetOf(fc[2], fc[3]) < Word
              /\ LET sav1 == SavPtr(Unset, FALSE, CharPtr(a))
                     fp == FieldAddr(CastTo(fc[2], FALSE, sav1), fc[2], fc[3])
                 IN  /\ (Stage1(fc[2], PtrExpr, sav1) # << >>) = s1
                     /\ (PTR_CAST_ALL(FALSE, TRUE, Unset, fc[1],
                                      FieldExpr(fc[2], fc[3]), fp,
                                      FALSE).out # << >>) = s2

C9_Witness ==
    /\ checkAlign /\ LastField
    /\ call.ptr % AlignOf(call.type1) = 0
    /\ AlignOf(call.type1) > 1
    /\ LastFieldAddr % AlignOf(call.type) # 0
    /\ Len(emitted) = 1
    /\ emitted[1].addr = LastFieldAddr

(* C10: with CHECK_CAST_ALIGN each check writes its line exactly when the  *)
(* address it saved, taken as an unsigned word, is not a multiple of the   *)
(* alignment of the type; this holds for address 0 and for the addresses   *)
(* whose top bit is set, which are negative as a long.                     *)
C10_AlignmentTest ==
    (checkAlign /\ call.op # "none") =>
        /\ (\E i \in 1 .. Len(emitted) : emitted[i].addr = sav_ptr.addr
                                         /\ emitted[i].type = call.type)
             <=> (sav_ptr.addr % AlignOf(call.type) # 0)
        /\ LastField =>
             ((\E i \in 1 .. Len(emitted) : emitted[i].addr = sav_ptr1.addr
                                             /\ emitted[i].type = call.type1)
                <=> (sav_ptr1.addr % AlignOf(call.type1) # 0))
        /\ sav_ptr.addr \in 0 .. Word - 1

C10_Witness ==
    /\ checkAlign /\ LastWhole
    /\ call.ptr >= SignBit
    /\ ToLong(call.ptr) < 0
    /\ call.ptr % AlignOf(call.type) # 0
    /\ Len(emitted) = 1
    /\ emitted[1].addr = call.ptr

====
